---- MODULE Spec2Model ----
(***************************************************************************)
(* Model of scripts/generate-favicon.py: the icon renderer                 *)
(* create_ghost_mask(size) stepped statement by statement, and the export  *)
(* driver (create_favicon_ico, create_png, the __main__ block).            *)
(*                                                                         *)
(* A canvas is the record [width, height, mode, color, draws]: the         *)
(* arguments of Image.new plus the ordered log of the draw calls issued on *)
(* it.  A float is an exact fraction <<num, den>>: every float the script  *)
(* forms is k * size / 64 or k / 2 with small k, which binary floating     *)
(* point represents exactly, so int() of it is the integer quotient.       *)
(***************************************************************************)
EXTENDS Integers, Sequences, FiniteSets, TLC

\* Largest size handed to create_ghost_mask by a direct caller.
MaxSize == 256

----------------------------------------------------------------------------
(* Module-level colours *)

BG_COLOR == <<10, 10, 15>>
GHOST_COLOR == <<40, 40, 60>>
NEON_COLOR == <<0, 255, 170>>

----------------------------------------------------------------------------
(* Arithmetic of the scale factor *)

Max(a, b) == IF a >= b THEN a ELSE b

\* a <= b on fractions with positive denominators
RatLeq(a, b) == a[1] * b[2] <= b[1] * a[2]

RatMax_min(a, b) == IF RatLeq(a, b) THEN a ELSE b

\* Python's max(a, b): b only when it is strictly greater
RatMax(a, b) == IF RatLeq(b, a) THEN a ELSE b

\* s = max(size / 64, 0.5)
Scale(sz) == RatMax(<<sz, 64>>, <<1, 2>>)

\* int((kn / kd) * sc): truncation of a non-negative product
PyInt(kn, kd, sc) == (kn * sc[1]) \div (kd * sc[2])

----------------------------------------------------------------------------
(* Geometry, each operator one expression of create_ghost_mask *)

TooSmall_4(sz) == sz < 4

\* if size < 8
TooSmall(sz) == sz < 8

CenterX(sz) == sz \div 2

CenterY(sz, sc) == sz \div 2 - Max(1, PyInt(4, 1, sc))

HeadWidth(sc) == Max(2, PyInt(24, 1, sc))

HeadHeight(sc) == Max(2, PyInt(22, 1, sc))

GhostPoints_typo(cx, cy, sc) ==
    << <<cx - Max(1, PyInt(20, 1, sc)), cy + Max(1, PyInt(10, 1, sc))>>,
       <<cx - Max(1, PyInt(22, 1, sc)), cy + Max(1, PyInt(20, 1, sc))>>,
       <<cx - Max(1, PyInt(18, 1, sc)), cy + Max(1, PyInt(26, 1, sc))>>,
       <<cx - Max(1, PyInt(14, 1, sc)), cy + Max(1, PyInt(28, 1, sc))>>,
       <<cx - Max(1, PyInt(8, 1, sc)), cy + Max(1, PyInt(24, 1, sc))>>,
       <<cx, cy + Max(1, PyInt(28, 1, sc))>>,
       <<cx + Max(1, PyInt(8, 1, sc)), cy + Max(1, PyInt(24, 1, sc))>>,
       <<cx + Max(1, PyInt(14, 1, sc)), cy + Max(1, PyInt(28, 1, sc))>>,
       <<cx + Max(1, PyInt(18, 1, sc)), cy + Max(1, PyInt(26, 1, sc))>>,
       <<cx + Max(1, PyInt(22, 1, sc)), cy + Max(1, PyInt(20, 1, sc))>>,
       <<cx + Max(1, PyInt(22, 1, sc)), cy + Max(1, PyInt(10, 1, sc))>> >>

GhostPoints(cx, cy, sc) ==
    << <<cx - Max(1, PyInt(20, 1, sc)), cy + Max(1, PyInt(10, 1, sc))>>,
       <<cx - Max(1, PyInt(22, 1, sc)), cy + Max(1, PyInt(20, 1, sc))>>,
       <<cx - Max(1, PyInt(18, 1, sc)), cy + Max(1, PyInt(26, 1, sc))>>,
       <<cx - Max(1, PyInt(14, 1, sc)), cy + Max(1, PyInt(28, 1, sc))>>,
       <<cx - Max(1, PyInt(8, 1, sc)), cy + Max(1, PyInt(24, 1, sc))>>,
       <<cx, cy + Max(1, PyInt(28, 1, sc))>>,
       <<cx + Max(1, PyInt(8, 1, sc)), cy + Max(1, PyInt(24, 1, sc))>>,
       <<cx + Max(1, PyInt(14, 1, sc)), cy + Max(1, PyInt(28, 1, sc))>>,
       <<cx + Max(1, PyInt(18, 1, sc)), cy + Max(1, PyInt(26, 1, sc))>>,
       <<cx + Max(1, PyInt(22, 1, sc)), cy + Max(1, PyInt(20, 1, sc))>>,
       <<cx + Max(1, PyInt(20, 1, sc)), cy + Max(1, PyInt(10, 1, sc))>> >>

HeadBox(cx, cy, hw, hh) == <<cx - hw, cy - hh, cx + hw, cy + hh \div 2>>

EyeOffsetX(sc) == Max(1, PyInt(8, 1, sc))

EyeY(cy, sc) == cy - Max(1, PyInt(2, 1, sc))

EyeRadius(sc) == Max(1, PyInt(6, 1, sc))

SocketBox(cx, eox, ey, er) ==
    <<cx - eox - er, ey - er, cx - eox + er, ey + er>>

GlowRadius(sc) == Max(2, PyInt(9, 1, sc))

GlowAlpha_step10(n) == 60 - n * 10

GlowAlpha(n) == 60 - n * 15

GlowBox_step3(cx, eox, ey, gr, n) ==
    <<cx - eox - gr + n * 3, ey - gr + n * 3,
      cx - eox + gr - n * 3, ey + gr - n * 3>>

GlowBox(cx, eox, ey, gr, n) ==
    <<cx - eox - gr + n * 2, ey - gr + n * 2,
      cx - eox + gr - n * 2, ey + gr - n * 2>>

\* range(3)
GlowRange == 3

PupilRadius(sc) == Max(1, PyInt(4, 1, sc))

PupilBox(cx, eox, ey, pr) ==
    <<cx - eox - pr, ey - pr, cx - eox + pr, ey + pr>>

HighlightRadius(sc) == Max(1, PyInt(3, 2, sc))

HighlightBox_plus(cx, eox, ey, sc) ==
    <<cx - eox + Max(1, PyInt(1, 2, sc)), ey + Max(1, PyInt(1, 2, sc)),
      cx - eox + PyInt(2, 1, sc), ey + PyInt(2, 1, sc)>>

HighlightBox(cx, eox, ey, sc) ==
    <<cx - eox - PyInt(2, 1, sc), ey - PyInt(2, 1, sc),
      cx - eox - Max(1, PyInt(1, 2, sc)), ey - Max(1, PyInt(1, 2, sc))>>

----------------------------------------------------------------------------
(* Canvas and draw calls *)

NewImage_RGB(mode, w, h, color) ==
    [width |-> w, height |-> h, mode |-> "RGB", color |-> color,
     draws |-> <<>>]

\* Image.new(mode, (w, h), color)
NewImage(mode, w, h, color) ==
    [width |-> w, height |-> h, mode |-> mode, color |-> color,
     draws |-> <<>>]

\* draw.polygon(points, fill=...)
Polygon(im, points, fill) ==
    [im EXCEPT !.draws =
        Append(@, [kind |-> "polygon", xy |-> points, fill |-> fill])]

\* draw.ellipse([x0, y0, x1, y1], fill=...)
Ellipse(im, box, fill) ==
    [im EXCEPT !.draws =
        Append(@, [kind |-> "ellipse", xy |-> box, fill |-> fill])]

\* img.resize((w, h), Image.LANCZOS): a new canvas of the requested size
Resize(im, w, h) == [im EXCEPT !.width = w, !.height = h]

\* A local that is not bound yet
NoImage == [width |-> 0, height |-> 0, mode |-> "", color |-> <<>>,
            draws |-> <<>>]

----------------------------------------------------------------------------
(* create_ghost_mask as a function of size *)

RECURSIVE GlowRings(_, _, _, _, _, _)
GlowRings(im, cx, eox, ey, gr, n) ==
    IF n >= GlowRange THEN im
    ELSE GlowRings(Ellipse(im, GlowBox(cx, eox, ey, gr, n),
                           NEON_COLOR \o <<GlowAlpha(n)>>),
                   cx, eox, ey, gr, n + 1)

create_ghost_mask(sz) ==
    LET im0 == NewImage("RGBA", sz, sz, BG_COLOR \o <<255>>)
        sc == Scale(sz)
        cx == CenterX(sz)
        cy == CenterY(sz, sc)
        eox == EyeOffsetX(sc)
        ey == EyeY(cy, sc)
        im1 == Polygon(im0, GhostPoints(cx, cy, sc), GHOST_COLOR \o <<255>>)
        im2 == Ellipse(im1, HeadBox(cx, cy, HeadWidth(sc), HeadHeight(sc)),
                       GHOST_COLOR \o <<255>>)
        im3 == Ellipse(im2, SocketBox(cx, eox, ey, EyeRadius(sc)),
                       BG_COLOR \o <<255>>)
        im4 == GlowRings(im3, cx, eox, ey, GlowRadius(sc), 0)
        im5 == Ellipse(im4, PupilBox(cx, eox, ey, PupilRadius(sc)),
                       NEON_COLOR)
        im6 == Ellipse(im5, HighlightBox(cx, eox, ey, sc), <<200, 255, 230>>)
    IN  IF TooSmall(sz) THEN im0 ELSE im6

----------------------------------------------------------------------------
(* State *)

VARIABLES
    mpc,              \* position of the caller (the __main__ block or a direct call)
    k,                \* create_favicon_ico: index of the next size of sizes
    images,           \* create_favicon_ico: the list images
    j,                \* __main__: index of the next create_png call
    files,            \* save calls that completed, in order
    out,              \* lines printed on stdout, in order
    gpc,              \* position inside create_ghost_mask
    size, img, s,
    center_x, center_y, head_width, head_height, ghost_points,
    eye_offset_x, eye_y, eye_radius, glow_radius, i, alpha,
    pupil_radius, highlight_radius,
    result            \* value returned by the last create_ghost_mask call

locals == <<size, img, s, center_x, center_y, head_width, head_height,
            ghost_points, eye_offset_x, eye_y, eye_radius, glow_radius, i,
            alpha, pupil_radius, highlight_radius>>

driver == <<mpc, k, images, j, files, out>>

vars == <<driver, gpc, locals, result>>

----------------------------------------------------------------------------
(* Export driver data *)

\* default argument of create_favicon_ico
sizes == <<16, 32, 48, 64, 128, 256>>

ico_path == "/root/.openclaw/workspace/ghostshift/public/favicon.ico"

\* f'/root/.openclaw/workspace/ghostshift/public/{filename}'
PngPath(filename) ==
    "/root/.openclaw/workspace/ghostshift/public/" \o filename

\* the three create_png calls of the __main__ block, in order
PngCalls == << [size |-> 16, filename |-> "favicon-16x16.png"],
               [size |-> 32, filename |-> "favicon-32x32.png"],
               [size |-> 180, filename |-> "apple-touch-icon.png"] >>

\* entering create_ghost_mask(sz): a fresh frame, no local bound
Enter(sz) ==
    /\ gpc' = "new"
    /\ size' = sz
    /\ img' = NoImage
    /\ s' = <<0, 1>>
    /\ center_x' = 0 /\ center_y' = 0
    /\ head_width' = 0 /\ head_height' = 0
    /\ ghost_points' = <<>>
    /\ eye_offset_x' = 0 /\ eye_y' = 0 /\ eye_radius' = 0
    /\ glow_radius' = 0 /\ i' = 0 /\ alpha' = 0
    /\ pupil_radius' = 0 /\ highlight_radius' = 0

Init ==
    /\ k = 1 /\ images = <<>> /\ j = 1 /\ files = <<>> /\ out = <<>>
    /\ img = NoImage /\ s = <<0, 1>>
    /\ center_x = 0 /\ center_y = 0 /\ head_width = 0 /\ head_height = 0
    /\ ghost_points = <<>>
    /\ eye_offset_x = 0 /\ eye_y = 0 /\ eye_radius = 0
    /\ glow_radius = 0 /\ i = 0 /\ alpha = 0
    /\ pupil_radius = 0 /\ highlight_radius = 0
    /\ result = NoImage
    /\ \/ mpc = "main" /\ gpc = "idle" /\ size = 0
       \/ mpc = "direct" /\ gpc = "new" /\ size \in 1..MaxSize

----------------------------------------------------------------------------
(* create_ghost_mask, one action per statement *)

\* img = Image.new('RGBA', (size, size), BG_COLOR + (255,)); draw = ...
GmNew ==
    /\ gpc = "new"
    /\ img' = NewImage("RGBA", size, size, BG_COLOR \o <<255>>)
    /\ gpc' = "scale"
    /\ UNCHANGED <<driver, result, size, s, center_x, center_y, head_width,
                   head_height, ghost_points, eye_offset_x, eye_y,
                   eye_radius, glow_radius, i, alpha, pupil_radius,
                   highlight_radius>>

\* s = max(size / 64, 0.5)
GmScale ==
    /\ gpc = "scale"
    /\ s' = Scale(size)
    /\ gpc' = "check"
    /\ UNCHANGED <<driver, result, size, img, center_x, center_y, head_width,
                   head_height, ghost_points, eye_offset_x, eye_y,
                   eye_radius, glow_radius, i, alpha, pupil_radius,
                   highlight_radius>>

\* if size < 8: return img
GmSmall ==
    /\ gpc = "check"
    /\ TooSmall(size)
    /\ result' = img
    /\ gpc' = "done"
    /\ UNCHANGED <<driver, locals>>

\* size >= 8: center_x, center_y, head_width, head_height
GmHeadGeom ==
    /\ gpc = "check"
    /\ ~TooSmall(size)
    /\ center_x' = CenterX(size)
    /\ center_y' = CenterY(size, s)
    /\ head_width' = HeadWidth(s)
    /\ head_height' = HeadHeight(s)
    /\ gpc' = "points"
    /\ UNCHANGED <<driver, result, size, img, s, ghost_points, eye_offset_x,
                   eye_y, eye_radius, glow_radius, i, alpha, pupil_radius,
                   highlight_radius>>

\* ghost_points = [...]
GmPoints ==
    /\ gpc = "points"
    /\ ghost_points' = GhostPoints(center_x, center_y, s)
    /\ gpc' = "polygon"
    /\ UNCHANGED <<driver, result, size, img, s, center_x, center_y,
                   head_width, head_height, eye_offset_x, eye_y, eye_radius,
                   glow_radius, i, alpha, pupil_radius, highlight_radius>>

\* draw.polygon(ghost_points, fill=GHOST_COLOR + (255,))
GmPolygon ==
    /\ gpc = "polygon"
    /\ img' = Polygon(img, ghost_points, GHOST_COLOR \o <<255>>)
    /\ gpc' = "head"
    /\ UNCHANGED <<driver, result, size, s, center_x, center_y, head_width,
                   head_height, ghost_points, eye_offset_x, eye_y,
                   eye_radius, glow_radius, i, alpha, pupil_radius,
                   highlight_radius>>

\* draw.ellipse([head box], fill=GHOST_COLOR + (255,))
GmHead ==
    /\ gpc = "head"
    /\ img' = Ellipse(img, HeadBox(center_x, center_y, head_width,
                                   head_height), GHOST_COLOR \o <<255>>)
    /\ gpc' = "eye_geom"
    /\ UNCHANGED <<driver, result, size, s, center_x, center_y, head_width,
                   head_height, ghost_points, eye_offset_x, eye_y,
                   eye_radius, glow_radius, i, alpha, pupil_radius,
                   highlight_radius>>

\* eye_offset_x, eye_y, eye_radius
GmEyeGeom ==
    /\ gpc = "eye_geom"
    /\ eye_offset_x' = EyeOffsetX(s)
    /\ eye_y' = EyeY(center_y, s)
    /\ eye_radius' = EyeRadius(s)
    /\ gpc' = "socket"
    /\ UNCHANGED <<driver, result, size, img, s, center_x, center_y,
                   head_width, head_height, ghost_points, glow_radius, i,
                   alpha, pupil_radius, highlight_radius>>

\* draw.ellipse([socket box], fill=BG_COLOR + (255,))
GmSocket ==
    /\ gpc = "socket"
    /\ img' = Ellipse(img, SocketBox(center_x, eye_offset_x, eye_y,
                                     eye_radius), BG_COLOR \o <<255>>)
    /\ gpc' = "glow_init"
    /\ UNCHANGED <<driver, result, size, s, center_x, center_y, head_width,
                   head_height, ghost_points, eye_offset_x, eye_y,
                   eye_radius, glow_radius, i, alpha, pupil_radius,
                   highlight_radius>>

\* glow_radius = max(2, int(9 * s)); the for loop starts at i = 0
GmGlowInit ==
    /\ gpc = "glow_init"
    /\ glow_radius' = GlowRadius(s)
    /\ i' = 0
    /\ gpc' = "glow_loop"
    /\ UNCHANGED <<driver, result, size, img, s, center_x, center_y,
                   head_width, head_height, ghost_points, eye_offset_x,
                   eye_y, eye_radius, alpha, pupil_radius,
                   highlight_radius>>

\* one iteration of for i in range(3): alpha, draw.ellipse
GmGlowRing ==
    /\ gpc = "glow_loop"
    /\ i < GlowRange
    /\ alpha' = GlowAlpha(i)
    /\ img' = Ellipse(img, GlowBox(center_x, eye_offset_x, eye_y,
                                   glow_radius, i),
                      NEON_COLOR \o <<GlowAlpha(i)>>)
    /\ i' = i + 1
    /\ UNCHANGED <<driver, result, gpc, size, s, center_x, center_y,
                   head_width, head_height, ghost_points, eye_offset_x,
                   eye_y, eye_radius, glow_radius, pupil_radius,
                   highlight_radius>>

\* range(3) exhausted; pupil_radius; draw.ellipse([pupil box], fill=NEON_COLOR)
GmPupil ==
    /\ gpc = "glow_loop"
    /\ ~(i < GlowRange)
    /\ pupil_radius' = PupilRadius(s)
    /\ img' = Ellipse(img, PupilBox(center_x, eye_offset_x, eye_y,
                                    PupilRadius(s)), NEON_COLOR)
    /\ gpc' = "highlight"
    /\ UNCHANGED <<driver, result, size, s, center_x, center_y, head_width,
                   head_height, ghost_points, eye_offset_x, eye_y,
                   eye_radius, glow_radius, i, alpha, highlight_radius>>

\* highlight_radius; draw.ellipse([highlight box], fill=(200, 255, 230))
GmHighlight ==
    /\ gpc = "highlight"
    /\ highlight_radius' = HighlightRadius(s)
    /\ img' = Ellipse(img, HighlightBox(center_x, eye_offset_x, eye_y, s),
                      <<200, 255, 230>>)
    /\ gpc' = "return"
    /\ UNCHANGED <<driver, result, size, s, center_x, center_y, head_width,
                   head_height, ghost_points, eye_offset_x, eye_y,
                   eye_radius, glow_radius, i, alpha, pupil_radius>>

\* return img
GmReturn ==
    /\ gpc = "return"
    /\ result' = img
    /\ gpc' = "done"
    /\ UNCHANGED <<driver, locals>>

----------------------------------------------------------------------------
(* Export driver *)

\* print("Generating GhostShift favicon assets..."); create_favicon_ico()
MainStart ==
    /\ mpc = "main"
    /\ out' = Append(out, "Generating GhostShift favicon assets...")
    /\ images' = <<>>
    /\ k' = 1
    /\ mpc' = "ico_loop"
    /\ UNCHANGED <<j, files, gpc, locals, result>>

\* for size in sizes: img = create_ghost_mask(size)  (the call)
IcoCall ==
    /\ mpc = "ico_loop"
    /\ k <= Len(sizes)
    /\ Enter(sizes[k])
    /\ mpc' = "ico_render"
    /\ UNCHANGED <<k, images, j, files, out, result>>

\* images.append(img.resize((size, size), Image.LANCZOS))
IcoAppend ==
    /\ mpc = "ico_render"
    /\ gpc = "done"
    /\ images' = Append(images, Resize(result, sizes[k], sizes[k]))
    /\ k' = k + 1
    /\ gpc' = "idle"
    /\ mpc' = "ico_loop"
    /\ UNCHANGED <<j, files, out, locals, result>>

IcoSave_noSlice ==
    /\ mpc = "ico_loop"
    /\ ~(k <= Len(sizes))
    /\ files' = Append(files,
          [path |-> ico_path, format |-> "ICO", im |-> images[1],
           sizes |-> [n \in 1..Len(images) |->
                         <<images[n].width, images[n].height>>],
           append_images |-> images])
    /\ mpc' = "ico_print"
    /\ UNCHANGED <<k, images, j, out, gpc, locals, result>>

\* images[0].save(ico_path, format='ICO', sizes=[...], append_images=images[1:])
IcoSave ==
    /\ mpc = "ico_loop"
    /\ ~(k <= Len(sizes))
    /\ files' = Append(files,
          [path |-> ico_path, format |-> "ICO", im |-> images[1],
           sizes |-> [n \in 1..Len(images) |->
                         <<images[n].width, images[n].height>>],
           append_images |-> Tail(images)])
    /\ mpc' = "ico_print"
    /\ UNCHANGED <<k, images, j, out, gpc, locals, result>>

\* the same save raising: nothing catches it, the process ends
IcoSaveFails ==
    /\ mpc = "ico_loop"
    /\ ~(k <= Len(sizes))
    /\ mpc' = "aborted"
    /\ UNCHANGED <<k, images, j, files, out, gpc, locals, result>>

\* print(f"Created {ico_path}"); return ico_path
IcoPrint ==
    /\ mpc = "ico_print"
    /\ out' = Append(out, "Created " \o ico_path)
    /\ mpc' = "png_call"
    /\ UNCHANGED <<k, images, j, files, gpc, locals, result>>

\* create_png(size, filename): img = create_ghost_mask(size)  (the call)
PngCall ==
    /\ mpc = "png_call"
    /\ j <= Len(PngCalls)
    /\ Enter(PngCalls[j].size)
    /\ mpc' = "png_render"
    /\ UNCHANGED <<k, images, j, files, out, result>>

\* path = f'.../{filename}'; img.save(path, 'PNG')
PngSave ==
    /\ mpc = "png_render"
    /\ gpc = "done"
    /\ files' = Append(files,
          [path |-> PngPath(PngCalls[j].filename), format |-> "PNG",
           im |-> result, sizes |-> <<>>, append_images |-> <<>>])
    /\ gpc' = "idle"
    /\ mpc' = "png_print"
    /\ UNCHANGED <<k, images, j, out, locals, result>>

PngSaveFails_swallowed ==
    /\ mpc = "png_render"
    /\ gpc = "done"
    /\ gpc' = "idle"
    /\ mpc' = "png_print"
    /\ UNCHANGED <<k, images, j, files, out, locals, result>>

\* the same save raising: nothing catches it, the process ends
PngSaveFails ==
    /\ mpc = "png_render"
    /\ gpc = "done"
    /\ mpc' = "aborted"
    /\ UNCHANGED <<k, images, j, files, out, gpc, locals, result>>

\* print(f"Created {path}"); return path
PngPrint ==
    /\ mpc = "png_print"
    /\ out' = Append(out, "Created " \o PngPath(PngCalls[j].filename))
    /\ j' = j + 1
    /\ mpc' = "png_call"
    /\ UNCHANGED <<k, images, files, gpc, locals, result>>

\* print("\nAll favicon assets created successfully!")
MainBanner ==
    /\ mpc = "png_call"
    /\ ~(j <= Len(PngCalls))
    /\ out' = Append(out, "\nAll favicon assets created successfully!")
    /\ mpc' = "exit"
    /\ UNCHANGED <<k, images, j, files, gpc, locals, result>>

----------------------------------------------------------------------------

Next ==
    \/ GmNew \/ GmScale \/ GmSmall \/ GmHeadGeom \/ GmPoints \/ GmPolygon
    \/ GmHead \/ GmEyeGeom \/ GmSocket \/ GmGlowInit \/ GmGlowRing
    \/ GmPupil \/ GmHighlight \/ GmReturn
    \/ MainStart \/ IcoCall \/ IcoAppend \/ IcoSave \/ IcoSaveFails
    \/ IcoPrint \/ PngCall \/ PngSave \/ PngSaveFails \/ PngPrint
    \/ MainBanner

Spec == Init /\ [][Next]_vars

----------------------------------------------------------------------------
(* The stepped function and the function of size agree *)

SteppedIsFunction == gpc = "done" => result = create_ghost_mask(size)

----------------------------------------------------------------------------
(* Vocabulary of the properties *)

\* the canvas local is bound once Image.new has run in the current frame
Bound == gpc # "new" /\ size >= 1

\* s is bound once line 19 has run in the current frame
ScaleBound == Bound /\ gpc # "scale"

Ellipses(im) == SelectSeq(im.draws, LAMBDA d : d.kind = "ellipse")

IsGlow(d) ==
    d.kind = "ellipse" /\ Len(d.fill) = 4 /\ SubSeq(d.fill, 1, 3) = <<0, 255, 170>>

GlowDraws(im) == SelectSeq(im.draws, IsGlow)

\* the draw calls of a full render, back to front, as <<kind, fill>>
LayerOrder ==
    << <<"polygon", <<40, 40, 60, 255>> >>,
       <<"ellipse", <<40, 40, 60, 255>> >>,
       <<"ellipse", <<10, 10, 15, 255>> >>,
       <<"ellipse", <<0, 255, 170, 60>> >>,
       <<"ellipse", <<0, 255, 170, 45>> >>,
       <<"ellipse", <<0, 255, 170, 30>> >>,
       <<"ellipse", <<0, 255, 170>> >>,
       <<"ellipse", <<200, 255, 230>> >> >>

OutputPaths ==
    << "/root/.openclaw/workspace/ghostshift/public/favicon.ico",
       "/root/.openclaw/workspace/ghostshift/public/favicon-16x16.png",
       "/root/.openclaw/workspace/ghostshift/public/favicon-32x32.png",
       "/root/.openclaw/workspace/ghostshift/public/apple-touch-icon.png" >>

Banner == "\nAll favicon assets created successfully!"

InOut(line) == \E n \in 1..Len(out) : out[n] = line

Frames(f) == <<f.im>> \o f.append_images

----------------------------------------------------------------------------
(* Properties *)

\* C1: for every size >= 8 the canvas is size x size with mode RGBA from its
\* creation on, through every draw call, and so is the returned canvas.
C1_CanvasSizeMode ==
    /\ (Bound /\ size >= 8) =>
          img.width = size /\ img.height = size /\ img.mode = "RGBA"
    /\ (gpc = "done" /\ size >= 8) =>
          result.width = size /\ result.height = size /\ result.mode = "RGBA"

C1_Witness ==
    gpc = "done" /\ size = 180 /\ result.width = 180 /\ Len(result.draws) = 8

\* C2: for every positive size < 8 no polygon or ellipse is ever drawn and the
\* returned canvas is the canvas as created: filled with (10, 10, 15, 255).
C2_SmallIsBackground ==
    /\ (Bound /\ size < 8) => img.draws = <<>>
    /\ (gpc = "done" /\ size >= 1 /\ size < 8) =>
          /\ result.draws = <<>>
          /\ result.color = <<10, 10, 15, 255>>
          /\ result.width = size /\ result.height = size

C2_Witness ==
    gpc = "done" /\ size = 7 /\ result.draws = <<>> /\ result.width = 7

\* C3: the scale factor is never below 0.5, is no smaller than the scale
\* factor of any smaller size, is 0.5 up to size 32 and size/64 above.
C3_ScaleMonotone ==
    ScaleBound =>
        /\ RatLeq(<<1, 2>>, s)
        /\ \A a \in 1..size : RatLeq(Scale(a), s)
        /\ size <= 32 => 2 * s[1] = s[2]
        /\ size > 32 => 64 * s[1] = size * s[2]

C3_Witness ==
    gpc = "check" /\ size = 48 /\ s = <<48, 64>> /\ Scale(16) = <<1, 2>>

\* C4: for every size >= 8 every radius and offset is >= 1 and every ellipse
\* drawn has a bounding box of strictly positive width and height.
C4_NoDegenerateShape ==
    (Bound /\ size >= 8) =>
        /\ \A n \in 1..Len(img.draws) :
              img.draws[n].kind = "ellipse" =>
                 /\ img.draws[n].xy[3] - img.draws[n].xy[1] > 0
                 /\ img.draws[n].xy[4] - img.draws[n].xy[2] > 0
        /\ gpc \in {"return", "done"} =>
              /\ head_width >= 1 /\ head_height >= 1
              /\ eye_offset_x >= 1 /\ eye_radius >= 1
              /\ pupil_radius >= 1 /\ highlight_radius >= 1
              /\ \A n \in 0..2 : glow_radius - 2 * n >= 1

\* C5: for every size >= 8 every ellipse bounding box [x0, y0, x1, y1] handed
\* to draw.ellipse has x0 <= x1 and y0 <= y1.
C5_NoNegativeRadius ==
    (Bound /\ size >= 8) =>
        \A n \in 1..Len(img.draws) :
            img.draws[n].kind = "ellipse" =>
               /\ img.draws[n].xy[1] <= img.draws[n].xy[3]
               /\ img.draws[n].xy[2] <= img.draws[n].xy[4]

\* a complete render in which one box is drawn with x0 = x1
C5_Witness ==
    /\ gpc = "done" /\ size = 16 /\ Len(Ellipses(result)) = 7
    /\ \E n \in 1..7 : Ellipses(result)[n].xy[1] = Ellipses(result)[n].xy[3]

\* C6: for every size >= 8 exactly three glow rings are drawn, in the order
\* i = 0, 1, 2, with alpha 60, 45, 30 and half-extent glow_radius - 2*i, each
\* ring strictly smaller than the one before, all centred on the eye centre.
C6_GlowRings ==
    /\ (Bound /\ size >= 8 /\ gpc = "glow_loop") => Len(GlowDraws(img)) = i
    /\ (gpc = "done" /\ size >= 8) =>
          LET g == GlowDraws(result)
              ex == center_x - eye_offset_x
          IN  /\ Len(g) = 3
              /\ \A n \in 1..3 :
                    /\ g[n] = result.draws[3 + n]
                    /\ g[n].fill[4] = 60 - 15 * (n - 1)
                    /\ g[n].xy[1] + g[n].xy[3] = 2 * ex
                    /\ g[n].xy[2] + g[n].xy[4] = 2 * eye_y
                    /\ g[n].xy[3] - ex = glow_radius - 2 * (n - 1)
                    /\ g[n].xy[4] - eye_y = glow_radius - 2 * (n - 1)
              /\ \A n \in 1..2 :
                    /\ g[n + 1].fill[4] < g[n].fill[4]
                    /\ g[n + 1].xy[3] - g[n + 1].xy[1] < g[n].xy[3] - g[n].xy[1]
                    /\ g[n + 1].xy[4] - g[n + 1].xy[2] < g[n].xy[4] - g[n].xy[2]

C6_Witness ==
    gpc = "done" /\ size = 64 /\ Len(GlowDraws(result)) = 3 /\ glow_radius = 9

\* C7: a run that reaches the end wrote exactly the four files favicon.ico,
\* favicon-16x16.png, favicon-32x32.png, apple-touch-icon.png, once each; the
\* PNGs are 16x16, 32x32, 180x180 and favicon.ico is given six frames of
\* dimensions 16, 32, 48, 64, 128, 256, frame n the render of the n-th size.
C7_FourFiles ==
    mpc = "exit" =>
        /\ Len(files) = 4
        /\ \A n \in 1..4 : files[n].path = OutputPaths[n]
        /\ \A m, n \in 1..4 : m # n => files[m].path # files[n].path
        /\ files[1].format = "ICO"
        /\ \A n \in 2..4 : files[n].format = "PNG" /\ Len(Frames(files[n])) = 1
        /\ files[2].im = create_ghost_mask(16)
        /\ files[3].im = create_ghost_mask(32)
        /\ files[4].im = create_ghost_mask(180)
        /\ \A n \in 2..4 : files[n].im.width = files[n].im.height
        /\ <<files[2].im.width, files[3].im.width, files[4].im.width>>
              = <<16, 32, 180>>
        /\ LET fr == Frames(files[1])
               dims == <<16, 32, 48, 64, 128, 256>>
           IN  /\ Len(fr) = 6
               /\ \A n \in 1..6 :
                     /\ fr[n].width = dims[n] /\ fr[n].height = dims[n]
                     /\ fr[n] = create_ghost_mask(dims[n])
                     /\ files[1].sizes[n] = <<dims[n], dims[n]>>
               /\ Len(files[1].sizes) = 6

C7_Witness ==
    mpc = "exit" /\ Len(files) = 4 /\ Len(files[1].append_images) = 5

\* C8: for every size >= 8 the draw calls are issued in the order body polygon,
\* head, socket (opaque background colour), glow 60, glow 45, glow 30, pupil,
\* highlight, and the highlight box lies up and to the left of the eye centre.
C8_LayerOrder ==
    (Bound /\ size >= 8) =>
        /\ Len(img.draws) <= 8
        /\ \A n \in 1..Len(img.draws) :
              <<img.draws[n].kind, img.draws[n].fill>> = LayerOrder[n]
        /\ gpc \in {"return", "done"} =>
              /\ Len(img.draws) = 8
              /\ img.draws[8].xy[1] < center_x - eye_offset_x
              /\ img.draws[8].xy[3] < center_x - eye_offset_x
              /\ img.draws[8].xy[2] < eye_y
              /\ img.draws[8].xy[4] < eye_y

C8_Witness ==
    /\ gpc = "return" /\ size = 128 /\ Len(img.draws) = 8
    /\ img.draws[8].xy = <<44, 48, 47, 51>>

\* C9: when a save fails the run ends there: the files written are the ones
\* before the failed one, they stay, exactly their 'Created' lines have been
\* printed, nothing is written or printed afterwards, and the banner is
\* printed only after all four writes.
C9_State ==
    /\ Len(files) <= 4
    /\ \A n \in 1..Len(files) : files[n].path = OutputPaths[n]
    /\ \A n \in 1..4 :
          InOut("Created " \o OutputPaths[n]) => Len(files) >= n
    /\ InOut(Banner) => Len(files) = 4
    /\ mpc = "aborted" =>
          /\ Len(files) < 4
          /\ ~InOut(Banner)
          /\ out = <<"Generating GhostShift favicon assets...">> \o
                      [n \in 1..Len(files) |-> "Created " \o files[n].path]

C9_AbortOnWriteFailure ==
    /\ []C9_State
    /\ [][/\ mpc = "aborted" => UNCHANGED <<mpc, files, out>>
          /\ \A n \in 1..Len(files) : Len(files') >= n /\ files'[n] = files[n]
         ]_vars

C9_Witness ==
    mpc = "aborted" /\ Len(files) = 2 /\ Len(out) = 3

\* C10: for every size >= 32 every polygon vertex and every corner of every
\* ellipse bounding box lies in 0..size-1 in both coordinates, and polygon
\* vertices k and 10-k have the same y and opposite x offsets from center_x.
C10_InsideCanvas ==
    (Bound /\ size >= 32) =>
        \A n \in 1..Len(img.draws) :
            LET d == img.draws[n]
            IN  /\ d.kind = "ellipse" =>
                      \A c \in 1..4 : d.xy[c] >= 0 /\ d.xy[c] <= size - 1
                /\ d.kind = "polygon" =>
                      /\ Len(d.xy) = 11
                      /\ \A v \in 1..11 :
                            /\ d.xy[v][1] >= 0 /\ d.xy[v][1] <= size - 1
                            /\ d.xy[v][2] >= 0 /\ d.xy[v][2] <= size - 1
                            /\ d.xy[v][2] = d.xy[12 - v][2]
                            /\ d.xy[v][1] - center_x
                                  = -(d.xy[12 - v][1] - center_x)

C10_Witness ==
    /\ gpc = "done" /\ size = 32 /\ Len(result.draws) = 8
    /\ result.draws[1].xy[2] = <<5, 24>> /\ result.draws[1].xy[10] = <<27, 24>>

====
